---------------------------- MODULE Spec2Model ----------------------------
(***************************************************************************)
(* UniversalRadioWSN: the three RadioInterface drivers (LoraRadio,         *)
(* NrfRadio, XBeeRadio) as one state machine.  One driver instance is      *)
(* constructed in Init (drv) and only its handlers are enabled.  Every     *)
(* handler is one action, except XBeeRadio::_esperarEstadoPin, whose       *)
(* polling loop is stepped (loop test + digitalRead, then delay(1)) so     *)
(* that the clock and the confirmation pin can change while it runs.       *)
(*                                                                         *)
(* The vendor libraries (LoRa, RF24, Stream) and the Arduino core          *)
(* (digitalRead, digitalWrite, millis, delay) are not part of the          *)
(* repository; the operators named Lora_*, RF24_*, Stream_* below state    *)
(* what the calls made by the drivers do to the chip/stream state.         *)
(***************************************************************************)
EXTENDS Integers, Sequences, FiniteSets, TLC

(* ------------------------------ bounds -------------------------------- *)

\* Number of inbound bytes the environment ever delivers (bytes are numbered
\* 1..MaxBytes in arrival order, so every byte has an identity).
MaxBytes == 4

\* Longest inbound packet (LoRa, NRF).
MaxPkt == 3

\* Largest maxLongitud passed to leer (0..MaxLen).
MaxLen == 2

\* Packets the NRF RX FIFO holds in the model.
MaxFifo == 2

\* Largest advance of millis() over one delay(1).
MaxTick == 2

(* -------------------------- program constants ------------------------- *)

\* timeout_ms passed to _esperarEstadoPin by dormir() and despertar().
TimeoutMs == 200

\* "pin not used" sentinel of the XBeeRadio constructor.
PinUnset == -1

(* ------------------------------ helpers ------------------------------- *)

Min(a, b) == IF a < b THEN a ELSE b

SeqRange(s) == {s[i] : i \in 1..Len(s)}

Take(s, n) == SubSeq(s, 1, n)

Drop(s, n) == SubSeq(s, n + 1, Len(s))

\* The consecutive byte ids first..first+n-1 as a sequence.
Bytes(first, n) == [i \in 1..n |-> first + i - 1]

IsPrefix(s, t) == Len(s) <= Len(t) /\ s = Take(t, Len(s))

\* uint32_t values are pairs <<hi, lo>> of 16-bit halves (value = hi*2^16+lo).
Half == 65536

Add32(a, d) ==
    LET lo == a[2] + d
    IN  <<(a[1] + lo \div Half) % Half, lo % Half>>

\* a - b modulo 2^32 (the unsigned subtraction of line 39).
Sub32(a, b) ==
    LET lo == a[2] - b[2]
        borrow == IF lo < 0 THEN 1 ELSE 0
    IN  <<(a[1] - b[1] - borrow + 2 * Half) % Half, (lo + Half) % Half>>

\* a < n for a uint32 a and a uint16 n (n is promoted to 32 bits).
Less32(a, n) == a[1] = 0 /\ a[2] < n

VARIABLES
    drv,          \* which driver was constructed: "lora" | "nrf" | "xbee"
    inited,       \* iniciar() has returned true
    op,           \* the interface call made last (or in progress for xbee)
    retBool,      \* its bool return value
    retInt,       \* its int / size_t return value
    calls,        \* provider / Arduino calls it made, in order
    ret,          \* bytes the last leer copied to the caller's buffer
    tail,         \* bytes that were available beyond r at the last leer
    prevTail,     \* value of tail when the last leer was entered
    prevN,        \* what the leer before the last leer returned (0 if none)
    trasTrunc,    \* the last call is a poll made right after a truncating leer
    nextId,       \* id of the next inbound byte
    \* LoRa chip + library state
    loraMode,     \* "off" | "standby" | "rx" | "sleep"
    loraIrq,      \* RxDone IRQ flag pending
    loraPkt,      \* payload of the latest received packet (FIFO from address 0)
    loraIdx,      \* LoRaClass::_packetIndex
    loraPtr,      \* REG_FIFO_ADDR_PTR
    \* NRF24L01 chip + RF24 state
    cfgDataRate,  \* NrfConfig::dataRate (uint16_t)
    nrfCE,        \* CE pin high
    nrfPrimRx,    \* CONFIG.PRIM_RX
    nrfPwrUp,     \* CONFIG.PWR_UP
    nrfFifo,      \* RX FIFO: sequence of payloads
    nrfRate,      \* data rate configured in the chip
    nrfAck,       \* what the last RF24::write returned
    entryListen,  \* whether the chip was listening when the last enviar was entered
    entryDormido, \* value of dormido when the last enviar was entered
    dormido,      \* dormir() was called since the last iniciar()/enviar()
    \* XBee pins, clock, stream
    cfgRq,        \* _pinSleepRq
    cfgOn,        \* _pinOnSleep
    rqPin,        \* level driven on the sleep-request pin: "none" | "LOW" | "HIGH"
    onPin,        \* level the module drives on the on/sleep pin
    pc,           \* "idle" | "test" | "delay": position inside _esperarEstadoPin
    now,          \* millis(), uint32
    tiempoInicio, \* tiempoInicio of _esperarEstadoPin
    estadoDeseado,\* estadoDeseado of _esperarEstadoPin
    waitRes,      \* "none" | "true" | "false": what _esperarEstadoPin returned
    hw,           \* Arduino primitives used by the current/last power call
    readOk,       \* a digitalRead of this call returned estadoDeseado
    trans,        \* milliseconds that really passed since tiempoInicio
    rxBuf,        \* Stream receive buffer
    \* one leerComoString call, lengths only
    sAvail,       \* bytes the provider has available when it is called
    sNul,         \* index of the first zero byte among them (0: none)
    sReq,         \* maxLongitud it passes to leer
    sR,           \* longitud: what leer returned
    sTerm,        \* index of buffer[] where the terminator was written
    sLen,         \* length of the String it returns
    sDone         \* the call has returned

common == <<drv, inited, op, retBool, retInt, calls>>
ghost  == <<ret, tail, prevTail, prevN, trasTrunc>>
loraV  == <<loraMode, loraIrq, loraPkt, loraIdx, loraPtr>>
nrfV   == <<cfgDataRate, nrfCE, nrfPrimRx, nrfPwrUp, nrfFifo, nrfRate, nrfAck,
            entryListen, entryDormido, dormido>>
xbeeW  == <<pc, now, tiempoInicio, estadoDeseado, waitRes, hw, readOk, trans>>
xbeeV  == <<cfgRq, cfgOn, rqPin, onPin, xbeeW, rxBuf>>
strV   == <<sAvail, sNul, sReq, sR, sTerm, sLen, sDone>>
vars   == <<common, ghost, nextId, loraV, nrfV, xbeeV, strV>>

Drivers == {"lora", "nrf", "xbee"}

\* NrfConfig::dataRate values tried: the two sentinels, their neighbours, the
\* documented 1, and values equal to a sentinel modulo 2^8.
DataRates == {0, 1, 2, 3, 249, 250, 251, 255, 256, 258, 506, 65535}

\* millis() at the entry of a power call, including values close to the wrap.
StartTimes == {<<0, 0>>, <<0, 65500>>, <<65535, 65336>>, <<65535, 65436>>,
               <<65535, 65535>>}

\* State after the constructor: nothing initialised, config stored.
DriverInit ==
    /\ drv \in Drivers
    /\ inited = FALSE
    /\ op = "new"
    /\ retBool = FALSE
    /\ retInt = 0
    /\ calls = <<>>
    /\ ret = <<>> /\ tail = <<>> /\ prevTail = <<>> /\ prevN = 0
    /\ trasTrunc = FALSE
    /\ nextId = 1
    /\ loraMode = "off" /\ loraIrq = FALSE /\ loraPkt = <<>>
    /\ loraIdx = 0 /\ loraPtr = 0
    /\ cfgDataRate \in (IF drv = "nrf" THEN DataRates ELSE {1})
    /\ nrfCE = FALSE /\ nrfPrimRx = FALSE /\ nrfPwrUp = FALSE
    /\ nrfFifo = <<>> /\ nrfRate = "unset" /\ nrfAck = FALSE
    /\ entryListen = FALSE /\ entryDormido = FALSE /\ dormido = FALSE
    /\ cfgRq \in (IF drv = "xbee" THEN {PinUnset, 4} ELSE {PinUnset})
    /\ cfgOn \in (IF drv = "xbee" THEN {PinUnset, 5} ELSE {PinUnset})
    /\ rqPin = "none"
    /\ onPin \in (IF drv = "xbee" THEN {"LOW", "HIGH"} ELSE {"HIGH"})
    /\ pc = "idle"
    /\ now = <<0, 0>> /\ tiempoInicio = <<0, 0>>
    /\ estadoDeseado = "HIGH"
    /\ waitRes = "none"
    /\ hw = {}
    /\ readOk = FALSE
    /\ trans = 0
    /\ rxBuf = <<>>

\* No leerComoString call is being followed.
StrNone ==
    /\ sAvail = 0 /\ sNul = 0 /\ sReq = 0 /\ sR = 0 /\ sTerm = 0 /\ sLen = 0
    /\ sDone = FALSE

Init == DriverInit /\ StrNone

\* Any call other than leer ends the "immediately following leer" window.
ClearGhost ==
    /\ ret' = <<>> /\ tail' = <<>> /\ prevTail' = <<>> /\ prevN' = 0
    /\ trasTrunc' = FALSE

\* Bookkeeping of a hayDatosDisponibles call: as ClearGhost, remembering
\* whether the call before it was a leer that left bytes beyond r.
PollGhost ==
    /\ ret' = <<>> /\ tail' = <<>> /\ prevTail' = <<>> /\ prevN' = 0
    /\ trasTrunc' = (op = "leer" /\ tail # <<>>)

\* Bookkeeping of a leer call that copied `copied`, leaving `beyond` (the
\* available bytes after the r-th) when more than maxLongitud were available.
LeerGhost(copied, beyond) ==
    /\ ret' = copied
    /\ prevTail' = tail
    /\ tail' = beyond
    /\ prevN' = (IF op = "leer" THEN retInt ELSE 0)
    /\ trasTrunc' = FALSE


(* ============================== LoraRadio ============================== *)

\* LoRa.begin(): the chip answers or not; on success the library leaves it in
\* standby (idle()) with the FIFO base addresses at 0.
Lora_begin(ok) ==
    /\ loraMode' = (IF ok THEN "standby" ELSE "off")
    /\ loraIrq' = FALSE
    /\ loraPkt' = <<>>
    /\ loraIdx' = 0
    /\ loraPtr' = 0

\* LoRa.available(): REG_RX_NB_BYTES - _packetIndex.
Lora_available == Len(loraPkt) - loraIdx

\* The FIFO byte at address p (0 where no packet byte was written).
Lora_fifoAt(p) == IF p + 1 <= Len(loraPkt) THEN loraPkt[p + 1] ELSE 0

\* Mutated call list: the early return of line 62 is missing.
LoraIniciarCalls_Mut(ok) ==
    <<"setPins", "begin", "setTxPower", "setSpreadingFactor",
      "setSignalBandwidth", "setCodingRate4", "setSyncWord">>

\* The LoRa calls LoraRadio::iniciar makes when begin() returns ok
\* (lines 58-70).
LoraIniciarCalls(ok) ==
    <<"setPins", "begin">> \o
        (IF ok THEN <<"setTxPower", "setSpreadingFactor",
                       "setSignalBandwidth", "setCodingRate4", "setSyncWord">>
               ELSE <<>>)

\* LoraRadio::iniciar
LoraIniciar ==
    /\ drv = "lora" /\ ~inited
    /\ \E ok \in BOOLEAN :
          /\ Lora_begin(ok)
          /\ calls' = LoraIniciarCalls(ok)
          /\ retBool' = ok
          /\ inited' = ok
    /\ op' = "iniciar"
    /\ ClearGhost
    /\ UNCHANGED <<drv, retInt, nextId, nrfV, xbeeV, strV>>

\* LoRa.parsePacket(), effect on the chip: with RxDone pending it rewinds
\* _packetIndex and the FIFO pointer, clears the IRQ and goes to standby;
\* otherwise it (re)enters single-RX mode with the pointer at 0.
Lora_parsePacket ==
    IF loraIrq
    THEN /\ loraIdx' = 0
         /\ loraPtr' = 0
         /\ loraIrq' = FALSE
         /\ loraMode' = "standby"
         /\ UNCHANGED loraPkt
    ELSE /\ loraMode' = "rx"
         /\ loraPtr' = (IF loraMode = "rx" THEN loraPtr ELSE 0)
         /\ UNCHANGED <<loraIrq, loraPkt, loraIdx>>

\* LoRa.parsePacket(), return value: the length of a newly received packet,
\* 0 when none was received since the previous call.
Lora_parsePacketRet == IF loraIrq THEN Len(loraPkt) ELSE 0

\* The mutated poll: when no new packet was parsed it reports what
\* LoRa.available() still counts.
LoraHayDatosDisponibles_Mut ==
    /\ drv = "lora" /\ inited
    /\ Lora_parsePacket
    /\ retInt' = (IF Lora_parsePacketRet # 0 THEN Lora_parsePacketRet
                                            ELSE Lora_available)
    /\ op' = "hayDatosDisponibles"
    /\ calls' = <<"parsePacket", "available">>
    /\ PollGhost
    /\ UNCHANGED <<drv, inited, retBool, nextId, nrfV, xbeeV, strV>>

\* LoraRadio::hayDatosDisponibles
LoraHayDatosDisponibles ==
    /\ drv = "lora" /\ inited
    /\ Lora_parsePacket
    /\ retInt' = Lora_parsePacketRet
    /\ op' = "hayDatosDisponibles"
    /\ calls' = <<"parsePacket">>
    /\ PollGhost
    /\ UNCHANGED <<drv, inited, retBool, nextId, nrfV, xbeeV, strV>>

\* Iterations of `while (LoRa.available() && bytesLeidos < maxLongitud)`:
\* available() drops by one per read and stops the loop only at exactly 0.
LoraLeerN(avail, maxLongitud) ==
    IF avail = 0 THEN 0
    ELSE IF avail > 0 THEN Min(avail, maxLongitud)
    ELSE maxLongitud

\* LoraRadio::leer.  Called as documented (lines 104-105): after a positive
\* hayDatosDisponibles(), possibly again after a previous leer.
LoraLeer(maxLongitud) ==
    /\ drv = "lora" /\ inited
    /\ op = "leer" \/ (op = "hayDatosDisponibles" /\ retInt > 0)
    /\ LET avail == Lora_available
           n     == LoraLeerN(avail, maxLongitud)
       IN  /\ retInt' = n
           /\ loraIdx' = loraIdx + n
           /\ loraPtr' = loraPtr + n
           /\ LeerGhost([i \in 1..n |-> Lora_fifoAt(loraPtr + i - 1)],
                        IF avail > maxLongitud
                        THEN [i \in 1..(avail - n) |-> Lora_fifoAt(loraPtr + n + i - 1)]
                        ELSE <<>>)
           /\ calls' = [i \in 1..n |-> "read"]
    /\ op' = "leer"
    /\ UNCHANGED <<drv, inited, retBool, nextId, loraMode, loraIrq, loraPkt,
                   nrfV, xbeeV, strV>>

\* LoraRadio::dormir
LoraDormir ==
    /\ drv = "lora" /\ inited
    /\ loraMode' = "sleep"
    /\ retBool' = TRUE
    /\ op' = "dormir"
    /\ calls' = <<"sleep">>
    /\ ClearGhost
    /\ UNCHANGED <<drv, inited, retInt, nextId, loraIrq, loraPkt, loraIdx,
                   loraPtr, nrfV, xbeeV, strV>>

\* LoraRadio::despertar
LoraDespertar ==
    /\ drv = "lora" /\ inited
    /\ loraMode' = "standby"
    /\ retBool' = TRUE
    /\ op' = "despertar"
    /\ calls' = <<"idle">>
    /\ ClearGhost
    /\ UNCHANGED <<drv, inited, retInt, nextId, loraIrq, loraPkt, loraIdx,
                   loraPtr, nrfV, xbeeV, strV>>

\* Environment: a packet is received while the chip is in single-RX mode; it
\* is written to the FIFO from the RX base address and the chip falls back
\* to standby with RxDone raised.
LoraRecibe ==
    /\ drv = "lora" /\ loraMode = "rx"
    /\ \E len \in 1..MaxPkt :
          /\ nextId + len - 1 <= MaxBytes
          /\ loraPkt' = Bytes(nextId, len)
          /\ nextId' = nextId + len
    /\ loraIrq' = TRUE
    /\ loraMode' = "standby"
    /\ ClearGhost
    /\ UNCHANGED <<common, loraIdx, loraPtr, nrfV, xbeeV, strV>>

(* =============================== NrfRadio =============================== *)

\* The part of the chip state that decides whether it receives.
NrfChip == [ce |-> nrfCE, rx |-> nrfPrimRx, up |-> nrfPwrUp]

\* Receiving: powered up, in PRX mode, CE high.
Listening(c) == c.ce /\ c.rx /\ c.up

\* RF24::stopListening(): CE low, PRIM_RX cleared.
RF24_stopListening(c) == [c EXCEPT !.ce = FALSE, !.rx = FALSE]

\* RF24::write(): the packet is clocked out with CE pulsed; CE ends low.
RF24_write(c) == [c EXCEPT !.ce = FALSE]

\* RF24::startListening(): powerUp(), PRIM_RX set, CE high.
RF24_startListening(c) == [c EXCEPT !.up = TRUE, !.rx = TRUE, !.ce = TRUE]

\* RF24::powerDown(): CE low, PWR_UP cleared.
RF24_powerDown(c) == [c EXCEPT !.ce = FALSE, !.up = FALSE]

\* RF24::powerUp(): PWR_UP set; CE and PRIM_RX untouched.
RF24_powerUp(c) == [c EXCEPT !.up = TRUE]

\* RF24::begin(): on success the chip is powered up in PTX mode, CE low.
RF24_begin(ok) == [ce |-> FALSE, rx |-> FALSE, up |-> ok]

\* RF24::getDynamicPayloadSize(): the width of the payload at the head of the
\* RX FIFO, 0 when the FIFO is empty.
RF24_getDynamicPayloadSize == IF nrfFifo = <<>> THEN 0 ELSE Len(Head(nrfFifo))

SetChip(c) == nrfCE' = c.ce /\ nrfPrimRx' = c.rx /\ nrfPwrUp' = c.up

\* Mutated translation: the selector is compared as an 8-bit value.
NrfDataRate_Mut(dataRate) ==
    IF dataRate % 256 = 250 THEN "RF24_250KBPS"
    ELSE IF dataRate % 256 = 2 THEN "RF24_2MBPS"
    ELSE "RF24_1MBPS"

\* The data-rate translation of iniciar (lines 75-81).
NrfDataRate(dataRate) ==
    IF dataRate = 250 THEN "RF24_250KBPS"
    ELSE IF dataRate = 2 THEN "RF24_2MBPS"
    ELSE "RF24_1MBPS"

\* Mutated iniciar: does not enter listening mode at the end.
NrfIniciar_Mut ==
    /\ drv = "nrf" /\ ~inited
    /\ \E ok \in BOOLEAN :
          /\ SetChip(RF24_begin(ok))
          /\ calls' = <<"begin">> \o
                 (IF ok THEN <<"setChannel", "setDataRate", "setPALevel",
                                "enableDynamicPayloads", "openWritingPipe",
                                "openReadingPipe">>
                        ELSE <<>>)
          /\ nrfRate' = (IF ok THEN NrfDataRate(cfgDataRate) ELSE nrfRate)
          /\ retBool' = ok
          /\ inited' = ok
    /\ nrfFifo' = <<>>
    /\ dormido' = FALSE
    /\ op' = "iniciar"
    /\ ClearGhost
    /\ UNCHANGED <<drv, retInt, nextId, cfgDataRate, nrfAck, entryListen,
                   entryDormido, loraV, xbeeV, strV>>

\* The RF24 calls NrfRadio::iniciar makes when begin() returns ok
\* (lines 68-95).
NrfIniciarCalls(ok) ==
    <<"begin">> \o
        (IF ok THEN <<"setChannel", "setDataRate", "setPALevel",
                       "enableDynamicPayloads", "openWritingPipe",
                       "openReadingPipe", "startListening">>
               ELSE <<>>)

\* NrfRadio::iniciar
NrfIniciar ==
    /\ drv = "nrf" /\ ~inited
    /\ \E ok \in BOOLEAN :
          /\ SetChip(IF ok THEN RF24_startListening(RF24_begin(ok))
                           ELSE RF24_begin(ok))
          /\ calls' = NrfIniciarCalls(ok)
          /\ nrfRate' = (IF ok THEN NrfDataRate(cfgDataRate) ELSE nrfRate)
          /\ retBool' = ok
          /\ inited' = ok
    /\ nrfFifo' = <<>>
    /\ dormido' = FALSE
    /\ op' = "iniciar"
    /\ ClearGhost
    /\ UNCHANGED <<drv, retInt, nextId, cfgDataRate, nrfAck, entryListen,
                   entryDormido, loraV, xbeeV, strV>>

\* Mutated enviar: returns without resuming listening.
NrfEnviar_Mut ==
    /\ drv = "nrf" /\ inited
    /\ \E ack \in BOOLEAN :
          /\ nrfAck' = ack
          /\ retBool' = ack
    /\ entryListen' = Listening(NrfChip)
    /\ entryDormido' = dormido
    /\ SetChip(RF24_write(RF24_stopListening(NrfChip)))
    /\ calls' = <<"stopListening", "write">>
    /\ dormido' = FALSE
    /\ op' = "enviar"
    /\ ClearGhost
    /\ UNCHANGED <<drv, inited, retInt, nextId, cfgDataRate, nrfFifo, nrfRate,
                   loraV, xbeeV, strV>>

\* Mutated return value of enviar: success once listening was resumed.
NrfEnviarRet_Mut(ok, c) == Listening(c)

\* What enviar returns (line 113): the value write() gave, whatever the chip
\* state after startListening().
NrfEnviarRet(ok, c) == ok

\* NrfRadio::enviar: stopListening, write (acknowledged or timed out),
\* startListening.
NrfEnviar ==
    /\ drv = "nrf" /\ inited
    /\ entryListen' = Listening(NrfChip)
    /\ entryDormido' = dormido
    /\ LET c == RF24_startListening(RF24_write(RF24_stopListening(NrfChip)))
       IN  /\ SetChip(c)
           /\ \E ack \in BOOLEAN :
                 /\ nrfAck' = ack
                 /\ retBool' = NrfEnviarRet(ack, c)
    /\ calls' = <<"stopListening", "write", "startListening">>
    /\ dormido' = FALSE
    /\ op' = "enviar"
    /\ ClearGhost
    /\ UNCHANGED <<drv, inited, retInt, nextId, cfgDataRate, nrfFifo, nrfRate,
                   loraV, xbeeV, strV>>

\* NrfRadio::hayDatosDisponibles
NrfHayDatosDisponibles ==
    /\ drv = "nrf" /\ inited
    /\ retInt' = (IF nrfFifo # <<>> THEN RF24_getDynamicPayloadSize ELSE 0)
    /\ calls' = (IF nrfFifo # <<>> THEN <<"available", "getDynamicPayloadSize">>
                                   ELSE <<"available">>)
    /\ op' = "hayDatosDisponibles"
    /\ PollGhost
    /\ UNCHANGED <<drv, inited, retBool, nextId, nrfV, loraV, xbeeV, strV>>

\* Mutated read: the payload stays in the RX FIFO with the copied bytes cut off.
NrfFifoAfterRead_Mut(fifo, bytesALeer) ==
    IF bytesALeer < Len(Head(fifo))
    THEN <<Drop(Head(fifo), bytesALeer)>> \o Tail(fifo)
    ELSE Tail(fifo)

\* The RX FIFO after `_radio.read(buffer, bytesALeer)` (line 145): one
\* R_RX_PAYLOAD of bytesALeer bytes, after which the chip deletes the payload.
NrfFifoAfterRead(fifo, bytesALeer) == Tail(fifo)

\* What NrfRadio::leer returns for a head payload of payloadSize bytes
\* (0: RX FIFO empty): lines 140-149.
NrfLeerN(payloadSize, maxLongitud) ==
    IF payloadSize = 0 THEN 0 ELSE Min(payloadSize, maxLongitud)

\* NrfRadio::leer.  A read of 0 bytes (maxLongitud = 0) issues R_RX_PAYLOAD
\* without clocking a byte out; whether the chip then deletes the payload is
\* left open (either outcome).
NrfLeer(maxLongitud) ==
    /\ drv = "nrf" /\ inited
    /\ LET payloadSize == RF24_getDynamicPayloadSize
           bytesALeer  == NrfLeerN(payloadSize, maxLongitud)
       IN  IF payloadSize = 0
           THEN /\ retInt' = 0
                /\ LeerGhost(<<>>, <<>>)
                /\ calls' = <<"getDynamicPayloadSize">>
                /\ UNCHANGED nrfFifo
           ELSE /\ retInt' = bytesALeer
                /\ LeerGhost(Take(Head(nrfFifo), bytesALeer),
                             Drop(Head(nrfFifo), bytesALeer))
                /\ calls' = <<"getDynamicPayloadSize", "read">>
                /\ \/ nrfFifo' = NrfFifoAfterRead(nrfFifo, bytesALeer)
                   \/ bytesALeer = 0 /\ UNCHANGED nrfFifo
    /\ op' = "leer"
    /\ UNCHANGED <<drv, inited, retBool, nextId, cfgDataRate, nrfCE, nrfPrimRx,
                   nrfPwrUp, nrfRate, nrfAck, entryListen, entryDormido, dormido,
                   loraV, xbeeV, strV>>

\* NrfRadio::dormir
NrfDormir ==
    /\ drv = "nrf" /\ inited
    /\ SetChip(RF24_powerDown(NrfChip))
    /\ dormido' = TRUE
    /\ retBool' = TRUE
    /\ calls' = <<"powerDown">>
    /\ op' = "dormir"
    /\ ClearGhost
    /\ UNCHANGED <<drv, inited, retInt, nextId, cfgDataRate, nrfFifo, nrfRate,
                   nrfAck, entryListen, entryDormido, loraV, xbeeV, strV>>

\* NrfRadio::despertar
NrfDespertar ==
    /\ drv = "nrf" /\ inited
    /\ SetChip(RF24_powerUp(NrfChip))
    /\ retBool' = TRUE
    /\ calls' = <<"powerUp", "delay(5)">>
    /\ op' = "despertar"
    /\ ClearGhost
    /\ UNCHANGED <<drv, inited, retInt, nextId, cfgDataRate, nrfFifo, nrfRate,
                   nrfAck, entryListen, entryDormido, dormido, loraV, xbeeV, strV>>

\* Environment: a payload arrives while the chip is listening and the RX FIFO
\* has room.
NrfRecibe ==
    /\ drv = "nrf" /\ Listening(NrfChip) /\ Len(nrfFifo) < MaxFifo
    /\ \E len \in 1..MaxPkt :
          /\ nextId + len - 1 <= MaxBytes
          /\ nrfFifo' = Append(nrfFifo, Bytes(nextId, len))
          /\ nextId' = nextId + len
    /\ ClearGhost
    /\ UNCHANGED <<common, cfgDataRate, nrfCE, nrfPrimRx, nrfPwrUp, nrfRate,
                   nrfAck, entryListen, entryDormido, dormido, loraV, xbeeV, strV>>

(* ============================== XBeeRadio ============================== *)

\* Mutated guard: the request pin is treated as absent only when the
\* confirmation pin is absent too.
SinPinSleepRq_Mut(pinSleepRq, pinOnSleep) == pinSleepRq < 0 /\ pinOnSleep < 0

\* `if (_pinSleepRq < 0) return true;` (lines 91, 109).
SinPinSleepRq(pinSleepRq, pinOnSleep) == pinSleepRq < 0

\* Mutated level: dormir() de-asserts the request pin.
NivelDormir_Mut == "HIGH"

\* Level dormir() writes to the sleep-request pin (line 93).
NivelDormir == "LOW"

\* Level despertar() writes to the sleep-request pin (line 111).
NivelDespertar == "HIGH"

\* Mutated loop condition: the comparison is reversed.
EsperarSigue_Mut(t, inicio, timeout_ms) == ~Less32(Sub32(t, inicio), timeout_ms + 1)

\* Mutated loop condition: `millis() < tiempoInicio + timeout_ms`, the
\* deadline computed in uint32_t instead of the elapsed time.
EsperarSigueLimite_Mut(t, inicio, timeout_ms) ==
    LET limite == Add32(inicio, timeout_ms)
    IN  t[1] < limite[1] \/ (t[1] = limite[1] /\ t[2] < limite[2])

\* `millis() - tiempoInicio < timeout_ms` (line 39), in uint32_t arithmetic.
EsperarSigue(t, inicio, timeout_ms) == Less32(Sub32(t, inicio), timeout_ms)

\* Mutated timeout result.
EsperarTimeout_Mut == "true"

\* What _esperarEstadoPin returns when the loop ends (line 45).
EsperarTimeout == "false"

\* The value the interface call returns once _esperarEstadoPin returned r:
\* dormir/despertar return it (lines 98, 116), iniciar ignores it (79-80).
XbeeRetorno(llamada, r) == IF llamada = "iniciar" THEN TRUE ELSE r = "true"

\* Body shared by dormir() and despertar() (and by iniciar(), which calls
\* despertar()): `nivel` is written to the request pin, `deseado` is the
\* level awaited on the confirmation pin, hw0 the primitives already used.
XbeePower(llamada, nivel, deseado, hw0) ==
    /\ op' = llamada
    /\ calls' = <<>>
    /\ ClearGhost
    /\ IF SinPinSleepRq(cfgRq, cfgOn)
       THEN /\ retBool' = TRUE
            /\ inited' = TRUE
            /\ hw' = hw0
            /\ waitRes' = "none"
            /\ readOk' = FALSE
            /\ UNCHANGED <<rqPin, pc, now, tiempoInicio, estadoDeseado, trans>>
       ELSE /\ rqPin' = nivel
            /\ IF cfgOn < 0
               THEN /\ retBool' = TRUE
                    /\ inited' = TRUE
                    /\ hw' = hw0 \cup {"digitalWrite"}
                    /\ waitRes' = "none"
                    /\ readOk' = FALSE
                    /\ UNCHANGED <<pc, now, tiempoInicio, estadoDeseado, trans>>
               ELSE /\ \E t \in StartTimes :
                          now' = t /\ tiempoInicio' = t
                    /\ estadoDeseado' = deseado
                    /\ trans' = 0
                    /\ readOk' = FALSE
                    /\ waitRes' = "none"
                    /\ hw' = hw0 \cup {"digitalWrite", "millis"}
                    /\ pc' = "test"
                    /\ UNCHANGED <<retBool, inited>>
    /\ UNCHANGED <<drv, retInt, nextId, cfgRq, cfgOn, onPin, rxBuf, loraV, nrfV, strV>>

\* XBeeRadio::iniciar: pinMode for the configured pins, then despertar().
XbeeIniciar ==
    /\ drv = "xbee" /\ ~inited /\ pc = "idle"
    /\ XbeePower("iniciar", NivelDespertar, "HIGH",
                 IF cfgRq >= 0 \/ cfgOn >= 0 THEN {"pinMode"} ELSE {})

\* XBeeRadio::dormir up to its return or to the entry of the polling loop.
XbeeDormir ==
    /\ drv = "xbee" /\ inited /\ pc = "idle"
    /\ XbeePower("dormir", NivelDormir, "LOW", {})

\* XBeeRadio::despertar up to its return or to the entry of the polling loop.
XbeeDespertar ==
    /\ drv = "xbee" /\ inited /\ pc = "idle"
    /\ XbeePower("despertar", NivelDespertar, "HIGH", {})

\* _esperarEstadoPin, one evaluation of the loop condition and, inside the
\* loop, the digitalRead: returns true on a match, goes to delay(1) on a
\* mismatch, returns false when the condition fails.
XbeeEsperarTest ==
    /\ drv = "xbee" /\ pc = "test"
    /\ IF EsperarSigue(now, tiempoInicio, TimeoutMs)
       THEN /\ hw' = hw \cup {"millis", "digitalRead"}
            /\ IF onPin = estadoDeseado
               THEN /\ waitRes' = "true"
                    /\ readOk' = TRUE
                    /\ retBool' = XbeeRetorno(op, "true")
                    /\ inited' = TRUE
                    /\ pc' = "idle"
               ELSE /\ pc' = "delay"
                    /\ UNCHANGED <<waitRes, readOk, retBool, inited>>
       ELSE /\ hw' = hw \cup {"millis"}
            /\ waitRes' = EsperarTimeout
            /\ retBool' = XbeeRetorno(op, EsperarTimeout)
            /\ inited' = TRUE
            /\ pc' = "idle"
            /\ UNCHANGED readOk
    /\ UNCHANGED <<drv, op, retInt, calls, ghost, nextId, cfgRq, cfgOn, rqPin,
                   onPin, now, tiempoInicio, estadoDeseado, trans, rxBuf,
                   loraV, nrfV, strV>>

\* _esperarEstadoPin, delay(1): at least one millisecond passes.
XbeeEsperarDelay ==
    /\ drv = "xbee" /\ pc = "delay"
    /\ \E d \in 1..MaxTick :
          /\ now' = Add32(now, d)
          /\ trans' = trans + d
    /\ hw' = hw \cup {"delay"}
    /\ pc' = "test"
    /\ UNCHANGED <<common, ghost, nextId, cfgRq, cfgOn, rqPin, onPin,
                   tiempoInicio, estadoDeseado, waitRes, readOk, rxBuf,
                   loraV, nrfV, strV>>

\* Environment: the module changes the level of its on/sleep pin.
XbeePinCambia ==
    /\ drv = "xbee" /\ cfgOn >= 0
    /\ onPin' = (IF onPin = "LOW" THEN "HIGH" ELSE "LOW")
    /\ UNCHANGED <<common, ghost, nextId, cfgRq, cfgOn, rqPin, xbeeW, rxBuf,
                   loraV, nrfV, strV>>

\* A call that does not wait: the locals and bookkeeping of the previous
\* power call are dead (millis() is read afresh at the next wait).
OlvidaEspera ==
    /\ now' = <<0, 0>> /\ tiempoInicio' = <<0, 0>>
    /\ estadoDeseado' = "HIGH"
    /\ waitRes' = "none"
    /\ hw' = {}
    /\ readOk' = FALSE
    /\ trans' = 0
    /\ UNCHANGED pc

\* XBeeRadio::hayDatosDisponibles
XbeeHayDatosDisponibles ==
    /\ drv = "xbee" /\ inited /\ pc = "idle"
    /\ retInt' = Len(rxBuf)
    /\ calls' = <<"available">>
    /\ op' = "hayDatosDisponibles"
    /\ PollGhost
    /\ OlvidaEspera
    /\ UNCHANGED <<drv, inited, retBool, nextId, cfgRq, cfgOn, rqPin, onPin,
                   rxBuf, loraV, nrfV, strV>>

\* The Stream buffer after readBytes(buffer, bytesALeer) (line 162).
XbeeBufferTrasLeer(buf, bytesALeer) == Drop(buf, bytesALeer)

\* What XBeeRadio::leer returns with bytesDisponibles bytes buffered
\* (lines 154-165); readBytes finds the bytes it is asked for in the buffer.
XbeeLeerN(bytesDisponibles, maxLongitud) ==
    IF maxLongitud = 0 THEN 0
    ELSE IF bytesDisponibles > 0 THEN Min(bytesDisponibles, maxLongitud)
    ELSE 0

\* XBeeRadio::leer
XbeeLeer(maxLongitud) ==
    /\ drv = "xbee" /\ inited /\ pc = "idle"
    /\ LET bytesDisponibles == Len(rxBuf)
           bytesALeer       == XbeeLeerN(bytesDisponibles, maxLongitud)
       IN  IF maxLongitud = 0
           THEN /\ retInt' = 0
                /\ calls' = <<>>
                /\ LeerGhost(<<>>, rxBuf)
                /\ UNCHANGED rxBuf
           ELSE IF bytesDisponibles > 0
           THEN /\ retInt' = bytesALeer
                /\ calls' = <<"available", "readBytes">>
                /\ LeerGhost(Take(rxBuf, bytesALeer),
                             IF bytesDisponibles > maxLongitud
                             THEN Drop(rxBuf, bytesALeer) ELSE <<>>)
                /\ rxBuf' = XbeeBufferTrasLeer(rxBuf, bytesALeer)
           ELSE /\ retInt' = 0
                /\ calls' = <<"available">>
                /\ LeerGhost(<<>>, <<>>)
                /\ UNCHANGED rxBuf
    /\ op' = "leer"
    /\ OlvidaEspera
    /\ UNCHANGED <<drv, inited, retBool, nextId, cfgRq, cfgOn, rqPin, onPin,
                   loraV, nrfV, strV>>

\* Environment: one byte arrives on the UART.  Bytes that arrive while a
\* power call is polling are seen by the driver only after it returns, so
\* arrival is taken between calls; bytes are counted from iniciar() on.
StreamRecibe ==
    /\ drv = "xbee" /\ inited /\ pc = "idle"
    /\ nextId <= MaxBytes
    /\ rxBuf' = Append(rxBuf, nextId)
    /\ nextId' = nextId + 1
    /\ ClearGhost
    /\ UNCHANGED <<common, cfgRq, cfgOn, rqPin, onPin, xbeeW, loraV, nrfV, strV>>

(* ===================== RadioInterface::leerComoString =================== *)

\* uint8_t buffer[256] (line 123).
TamBuffer == 256

\* Mutated capacity: the whole buffer is offered to leer.
CapacidadLeer_Mut == TamBuffer

\* maxLongitud passed to leer (line 126): one byte is kept for the '\0'.
CapacidadLeer == 255

\* The virtual call leer(buffer, maxLongitud) of line 126, as a byte count:
\* what driver d returns when its provider holds `disponibles` bytes (for the
\* packet drivers, the packet to read).
LeerN(d, disponibles, maxLongitud) ==
    CASE d = "lora" -> LoraLeerN(disponibles, maxLongitud)
      [] d = "nrf"  -> NrfLeerN(disponibles, maxLongitud)
      [] d = "xbee" -> XbeeLeerN(disponibles, maxLongitud)

\* Length of String((char*)buffer): the bytes before the first '\0', which is
\* a zero byte of the payload (at index nul of the copied bytes) or the
\* terminator written at index longitud.
StringLen(longitud, nul) ==
    IF nul >= 1 /\ nul <= longitud THEN nul - 1 ELSE longitud

\* RadioInterface::leerComoString
LeerComoString ==
    /\ ~sDone
    /\ LET longitud == LeerN(drv, sAvail, CapacidadLeer)
       IN  /\ sReq' = CapacidadLeer
           /\ sR' = longitud
           /\ sTerm' = longitud
           /\ sLen' = StringLen(longitud, sNul)
    /\ sDone' = TRUE
    /\ op' = "leerComoString"
    /\ UNCHANGED <<drv, inited, retBool, retInt, calls, ghost, nextId, loraV,
                   nrfV, xbeeV, sAvail, sNul>>

\* Payload lengths a provider can hold: up to 32 bytes for the NRF24L01,
\* up to 255 for a LoRa packet, any buffer size for a Stream.
Disponibles(d) ==
    CASE d = "nrf"  -> {0, 1, 2, 31, 32}
      [] d = "lora" -> {0, 1, 2, 254, 255}
      [] d = "xbee" -> {0, 1, 2, 254, 255, 256, 257, 300, 1000}

\* The inputs of one leerComoString call: a driver holding sAvail bytes whose
\* first zero byte, if any, is the sNul-th.
StrInit ==
    /\ DriverInit
    /\ sAvail \in Disponibles(drv)
    /\ sNul \in {0} \cup {k \in {1, 2, 255, 256, 257} : k <= sAvail}
    /\ sReq = 0 /\ sR = 0 /\ sTerm = 0 /\ sLen = 0
    /\ sDone = FALSE

StrNext == LeerComoString

StrSpec == StrInit /\ [][StrNext]_vars

Next ==
    \/ LoraIniciar
    \/ LoraHayDatosDisponibles
    \/ \E m \in 0..MaxLen : LoraLeer(m)
    \/ LoraDormir
    \/ LoraDespertar
    \/ LoraRecibe
    \/ NrfIniciar
    \/ NrfEnviar
    \/ NrfHayDatosDisponibles
    \/ \E m \in 0..MaxLen : NrfLeer(m)
    \/ NrfDormir
    \/ NrfDespertar
    \/ NrfRecibe
    \/ XbeeIniciar
    \/ XbeeDormir
    \/ XbeeDespertar
    \/ XbeeEsperarTest
    \/ XbeeEsperarDelay
    \/ XbeePinCambia
    \/ XbeeHayDatosDisponibles
    \/ \E m \in 0..MaxLen : XbeeLeer(m)
    \/ StreamRecibe

Spec == Init /\ [][Next]_vars

\* The power-call part of XBeeRadio alone (hayDatosDisponibles, leer and
\* byte arrival are disabled while a call is polling and touch none of its
\* variables), with the fairness of a running program: a call that is inside
\* _esperarEstadoPin executes its next statement.
XbeeInit == Init /\ drv = "xbee"

XbeePowerNext ==
    \/ XbeeIniciar
    \/ XbeeDormir
    \/ XbeeDespertar
    \/ XbeeEsperarTest
    \/ XbeeEsperarDelay
    \/ XbeePinCambia

LiveSpec ==
    /\ XbeeInit
    /\ [][XbeePowerNext]_vars
    /\ WF_vars(XbeeEsperarTest)
    /\ WF_vars(XbeeEsperarDelay)

(* =============================== claims ================================ *)

PowerOps == {"dormir", "despertar"}

Disjoint(s, t) == SeqRange(s) \cap SeqRange(t) = {}

C2_ListeningResumption ==
    (drv = "nrf" /\ op = "enviar") =>
        /\ calls = <<"stopListening", "write", "startListening">>
        /\ Listening(NrfChip)

C2_Witness ==
    /\ drv = "nrf" /\ op = "enviar" /\ ~nrfAck /\ entryListen
    /\ Listening(NrfChip)

\* C3 (as stated): the chip is listening when enviar is entered and when it
\* returns, for every sequence of calls.
C3_ListeningAtBoundaries ==
    (drv = "nrf" /\ op = "enviar") => (entryListen /\ Listening(NrfChip))

\* C3 (amended): the chip is listening whenever enviar returns; when enviar
\* is entered it is listening exactly if dormir() was not called since the
\* last iniciar()/enviar() (despertar() does not resume listening).
C3_ListeningUnlessDormir ==
    (drv = "nrf" /\ op = "enviar") =>
        /\ Listening(NrfChip)
        /\ entryListen <=> ~entryDormido

C3_Witness ==
    /\ drv = "nrf" /\ op = "enviar"
    /\ entryDormido /\ ~entryListen /\ Listening(NrfChip)

\* C4: with a request pin and no confirmation pin, dormir() drives the
\* request pin LOW, despertar() drives it HIGH, and both return true at once,
\* using no primitive but digitalWrite.
C4_OptimisticSleepWake ==
    (drv = "xbee" /\ cfgRq >= 0 /\ cfgOn < 0 /\ op \in PowerOps) =>
        /\ pc = "idle"
        /\ retBool
        /\ rqPin = (IF op = "dormir" THEN "LOW" ELSE "HIGH")
        /\ hw = {"digitalWrite"}

C4_Witness ==
    /\ drv = "xbee" /\ cfgRq >= 0 /\ cfgOn < 0
    /\ op = "dormir" /\ rqPin = "LOW" /\ retBool

\* C5 (as stated): whenever a confirmation pin is configured, dormir() /
\* despertar() return true exactly if the pin was read at the expected level.
C5_TimeoutReported ==
    (drv = "xbee" /\ cfgOn >= 0 /\ op \in PowerOps /\ pc = "idle") =>
        (retBool <=> readOk)

\* C5 (amended): when both the request pin and the confirmation pin are
\* configured, dormir() / despertar() return true exactly if the pin was
\* read at the expected level, and then less than 200 ms after the start.
C5_TimeoutReportedBothPins ==
    (drv = "xbee" /\ cfgRq >= 0 /\ cfgOn >= 0 /\ op \in PowerOps /\ pc = "idle") =>
        /\ retBool <=> readOk
        /\ retBool => trans < TimeoutMs

C5_Witness ==
    /\ drv = "xbee" /\ cfgRq >= 0 /\ cfgOn >= 0
    /\ op = "dormir" /\ pc = "idle" /\ ~retBool /\ ~readOk
    /\ "digitalRead" \in hw

\* C6: with both pins configured and the confirmation pin never read at the
\* awaited level, dormir() / despertar() return only once 200 ms have passed,
\* after at least one pin read; and every wait ends.
C6_BoundedWait ==
    /\ [](
          (/\ drv = "xbee" /\ cfgRq >= 0 /\ cfgOn >= 0
           /\ op \in PowerOps /\ pc = "idle" /\ ~readOk) =>
             (/\ ~retBool
              /\ trans >= TimeoutMs
              /\ "digitalRead" \in hw))
    /\ (pc # "idle") ~> (pc = "idle")

C6_Witness ==
    /\ drv = "xbee" /\ cfgRq >= 0 /\ cfgOn >= 0
    /\ op = "despertar" /\ pc = "idle" /\ ~readOk /\ ~retBool
    /\ trans >= TimeoutMs

\* C7: without a request pin, dormir() and despertar() return true without
\* writing, reading or waiting, whether or not a confirmation pin is set.
C7_NoRequestPinNoAccess ==
    (drv = "xbee" /\ cfgRq < 0 /\ op \in PowerOps) =>
        /\ pc = "idle"
        /\ retBool
        /\ hw = {}
        /\ rqPin = "none"

C7_Witness ==
    /\ drv = "xbee" /\ cfgRq < 0 /\ cfgOn >= 0
    /\ op = "despertar" /\ retBool

\* Occurrences of call c in the call list s.
Count(s, c) == Cardinality({i \in 1..Len(s) : s[i] = c})

\* C8: iniciar() fails only when begin() fails; otherwise it sets exactly one
\* data rate: 250 -> 250KBPS, 2 -> 2MBPS, anything else -> 1MBPS.
C8_DataRateFallback ==
    /\ (drv = "nrf" /\ op = "iniciar") =>
          /\ ~retBool => calls = <<"begin">>
          /\ retBool => Count(calls, "setDataRate") = 1
    /\ (drv = "nrf" /\ inited) =>
          /\ cfgDataRate = 250 => nrfRate = "RF24_250KBPS"
          /\ cfgDataRate = 2 => nrfRate = "RF24_2MBPS"
          /\ cfgDataRate \notin {250, 2} => nrfRate = "RF24_1MBPS"

C8_Witness ==
    /\ drv = "nrf" /\ op = "iniciar" /\ retBool
    /\ cfgDataRate = 506 /\ nrfRate = "RF24_1MBPS"

\* C9: on LoraRadio, a hayDatosDisponibles() made right after a leer that
\* left part of the packet undrained, no packet having arrived, returns 0.
C9_NoLeftoverPoll ==
    (drv = "lora" /\ op = "hayDatosDisponibles" /\ trasTrunc) => retInt = 0

C9_Witness ==
    /\ drv = "lora" /\ op = "hayDatosDisponibles" /\ trasTrunc
    /\ loraIdx > 0 /\ loraIdx < Len(loraPkt)

\* C10: NrfRadio::enviar returns exactly what the acknowledged write
\* reported, the write being made before listening is resumed.
C10_AckResult ==
    (drv = "nrf" /\ op = "enviar") =>
        /\ retBool = nrfAck
        /\ \E i, j \in 1..Len(calls) :
              i < j /\ calls[i] = "write" /\ calls[j] = "startListening"

C10_Witness ==
    /\ drv = "nrf" /\ op = "enviar" /\ nrfAck /\ retBool
    /\ entryDormido

\* C11: leerComoString asks leer for at most 255 bytes, gets 0 <= r <= 255
\* back, writes the terminator at index r inside the 256-byte buffer, and
\* returns a text of at most 255 bytes; a payload above 255 bytes is cut to
\* 255.
C11_FacadeBound ==
    sDone =>
        /\ sReq <= 255
        /\ 0 <= sR /\ sR <= 255 /\ sR <= sAvail
        /\ sTerm = sR /\ sTerm >= 0 /\ sTerm < 256
        /\ sLen <= sR /\ sLen <= 255
        /\ sAvail > 255 => sR = 255

C11_Witness ==
    /\ sDone /\ drv = "xbee"
    /\ sAvail > 255 /\ sR = 255 /\ sTerm = 255 /\ sLen = 255

\* C12: whenever XBeeRadio::iniciar() has returned true, the request pin, if
\* configured, is at the level despertar() writes and the confirmation pin, if
\* configured, has been read at the awake level.
C12_StartsActive ==
    (drv = "xbee" /\ op = "iniciar" /\ pc = "idle" /\ inited /\ retBool) =>
        /\ cfgRq >= 0 => rqPin = NivelDespertar
        /\ cfgOn >= 0 => readOk

\* The calls made after the begin call.
TrasBegin(s) ==
    LET i == CHOOSE k \in 1..Len(s) : s[k] = "begin"
    IN  SubSeq(s, i + 1, Len(s))

\* C13: LoraRadio::iniciar and NrfRadio::iniciar call begin exactly once; if
\* it failed they return false with no configuration call after it, if it
\* succeeded they make every configuration call and return true.
C13_InitAllOrNothing ==
    (op = "iniciar" /\ drv \in {"lora", "nrf"}) =>
        LET begun == IF drv = "lora" THEN loraMode # "off" ELSE nrfPwrUp
        IN  /\ Count(calls, "begin") = 1
            /\ retBool = begun
            /\ inited = begun
            /\ ~begun => TrasBegin(calls) = <<>>
            /\ (begun /\ drv = "lora") =>
                  TrasBegin(calls) =
                      <<"setTxPower", "setSpreadingFactor",
                        "setSignalBandwidth", "setCodingRate4", "setSyncWord">>
            /\ (begun /\ drv = "nrf") =>
                  TrasBegin(calls) =
                      <<"setChannel", "setDataRate", "setPALevel",
                        "enableDynamicPayloads", "openWritingPipe",
                        "openReadingPipe", "startListening">>

C13_Witness ==
    /\ drv = "lora" /\ op = "iniciar"
    /\ loraMode = "off" /\ ~retBool
    /\ calls = <<"setPins", "begin">>

\* C14: for every start value of millis(), also one less than 200 ms before
\* the counter wraps, the elapsed time _esperarEstadoPin computes is the time
\* that really passed; every poll is taken while less than 200 ms have
\* passed; the wait returns true only on a poll that read the awaited level
\* and returns false only without such a poll, once 200 ms have passed and
\* no later than the delay that crossed them.
C14_WrapSafeWait ==
    (/\ drv = "xbee" /\ cfgRq >= 0 /\ cfgOn >= 0
     /\ op \in PowerOps \cup {"iniciar"}) =>
        /\ Sub32(now, tiempoInicio) = <<0, trans>>
        /\ pc = "delay" => trans < TimeoutMs
        /\ pc = "idle" => waitRes \in {"true", "false"}
        /\ waitRes = "true" => (readOk /\ trans < TimeoutMs)
        /\ waitRes = "false" =>
              (~readOk /\ trans >= TimeoutMs /\ trans < TimeoutMs + MaxTick)

C14_Witness ==
    /\ drv = "xbee" /\ cfgRq >= 0 /\ cfgOn >= 0
    /\ op = "dormir" /\ pc = "idle"
    /\ tiempoInicio[1] = Half - 1 /\ tiempoInicio[2] > Half - TimeoutMs
    /\ now[1] = 0
    /\ waitRes = "false" /\ trans >= TimeoutMs

=============================================================================
